---- MODULE Spec2Model ----
(***************************************************************************)
(* A model of the ffist Predictor (src/ffist/predictor.py): the lifecycle  *)
(* of the empirical variogram, the fitted variogram model and the kriging  *)
(* closures, and the per-target kriging computation.                       *)
(*                                                                         *)
(* Real numbers are exact rationals <<numerator, denominator>> with a      *)
(* positive denominator, in lowest terms; floating point rounding is not   *)
(* modelled.  A field that may be None holds None or Some(v); an attribute *)
(* that __init__ never assigns is Unset until it is assigned.              *)
(***************************************************************************)
EXTENDS Integers, Sequences, FiniteSets, TLC

None == <<>>
Some(v) == <<v>>
Val(o) == o[1]
Unset == <<"unset", "unset">>
NaN == <<"NaN">>

(***************************************************************************)
(* Exact rational arithmetic.                                              *)
(***************************************************************************)
Abs(i) == IF i < 0 THEN -i ELSE i

RECURSIVE Gcd(_, _)
Gcd(a, b) == IF b = 0 THEN a ELSE Gcd(b, a % b)

Norm(n, d) ==
    LET s == IF d < 0 THEN -1 ELSE 1
        g == Gcd(Abs(n), Abs(d))
    IN  IF n = 0 THEN <<0, 1>> ELSE <<(s * n) \div g, (s * d) \div g>>

R(i) == <<i, 1>>
Zero == <<0, 1>>
One == <<1, 1>>
RAdd(p, q) == Norm(p[1] * q[2] + q[1] * p[2], p[2] * q[2])
RSub(p, q) == Norm(p[1] * q[2] - q[1] * p[2], p[2] * q[2])
RMul(p, q) == Norm(p[1] * q[1], p[2] * q[2])
RDiv(p, q) == Norm(p[1] * q[2], p[2] * q[1])
RLe(p, q) == p[1] * q[2] <= q[1] * p[2]
RLt(p, q) == p[1] * q[2] < q[1] * p[2]
RAbs(p) == <<Abs(p[1]), p[2]>>

RECURSIVE RSum(_)
RSum(s) == IF s = <<>> THEN Zero ELSE RAdd(s[1], RSum(Tail(s)))

\* int(x) for x >= 0, as in histogram2d's bin index
RFloor(p) == p[1] \div p[2]

(***************************************************************************)
(* Exact linear algebra on matrices held as sequences of rows.             *)
(***************************************************************************)
\* The tuple <<f[1], ..., f[n]>>, each entry evaluated once.
RECURSIVE Tuple(_, _)
Tuple(f, n) == IF n = 0 THEN <<>> ELSE Append(Tuple(f, n - 1), f[n])

\* The m x n matrix with entries f[i][j], as a tuple of tuples.
RECURSIVE Matrix(_, _, _)
Matrix(f, m, n) ==
    IF m = 0 THEN <<>> ELSE Append(Matrix(f, m - 1, n), Tuple(f[m], n))

RECURSIVE SortedSeq(_)
SortedSeq(S) ==
    IF S = {} THEN <<>>
    ELSE LET lo == CHOOSE i \in S : \A j \in S : i <= j
         IN  <<lo>> \o SortedSeq(S \ {lo})

\* One elimination step: the pivot row p, scaled to a leading 1 (prow), moves
\* to row r, and every other row loses its entry in column c.
ScaledRow(row, c) ==
    Tuple([k \in 1..Len(row) |-> RDiv(row[k], row[c])], Len(row))

ReducedRow(row, c, prow) ==
    [k \in 1..Len(prow) |-> RSub(row[k], RMul(row[c], prow[k]))]

EliminateWith(M, r, c, p, prow) ==
    Matrix([i \in 1..Len(M) |->
              IF i = r THEN prow
              ELSE ReducedRow(IF i = p THEN M[r] ELSE M[i], c, prow)],
           Len(M), Len(prow))

Eliminate(M, r, c, p) == EliminateWith(M, r, c, p, ScaledRow(M[p], c))

MinOf(S) == CHOOSE i \in S : \A j \in S : i <= j

PivotRows(M, r, c) == {i \in r..Len(M) : M[i][c] # Zero}

\* Reduced row echelon form of M over its first ncols columns, from pivot
\* row r and column c on.
RECURSIVE GaussJordan(_, _, _, _)
GaussJordan(M, r, c, ncols) ==
    IF c > ncols \/ r > Len(M) THEN M
    ELSE IF PivotRows(M, r, c) = {} THEN GaussJordan(M, r, c + 1, ncols)
    ELSE GaussJordan(Eliminate(M, r, c, MinOf(PivotRows(M, r, c))),
                     r + 1, c + 1, ncols)

PivotCol(row, ncols) ==
    IF \A k \in 1..ncols : row[k] = Zero THEN 0
    ELSE MinOf({k \in 1..ncols : row[k] # Zero})

\* A basis of the null space of a matrix from its reduced row echelon form E
\* (m columns): one vector per free column.
NullVectors(E, m, pivots, free) ==
    Matrix([f \in 1..Len(free) |->
              [j \in 1..m |->
                  IF j = free[f] THEN One
                  ELSE IF j \in pivots
                  THEN RSub(Zero,
                            E[CHOOSE i \in 1..m : PivotCol(E[i], m) = j][free[f]])
                  ELSE Zero]],
           Len(free), m)

PivotCols(E, m) == {PivotCol(E[i], m) : i \in 1..m} \ {0}

NullBasisOf(E, m, pivots) ==
    NullVectors(E, m, pivots, SortedSeq((1..m) \ pivots))

NullBasisFrom(E, m) == NullBasisOf(E, m, PivotCols(E, m))

NullBasis(A) == NullBasisFrom(GaussJordan(A, 1, 1, Len(A)), Len(A))

\* The bordered system [[A, N], [N^T, 0]] with right-hand side [b; 0].
Bordered(A, b, N, m, d) ==
    Matrix([i \in 1..(m + d) |->
              [j \in 1..(m + d + 1) |->
                  IF i <= m
                  THEN IF j <= m THEN A[i][j]
                       ELSE IF j <= m + d THEN N[j - m][i]
                       ELSE b[i]
                  ELSE IF j <= m THEN N[i - m][j]
                       ELSE Zero]],
           m + d, m + d + 1)

LastColumn(E, m, width) == Tuple([i \in 1..m |-> E[i][width]], m)

LstsqWith(A, b, N, m) ==
    LastColumn(GaussJordan(Bordered(A, b, N, m, Len(N)), 1, 1, m + Len(N)),
               m, m + Len(N) + 1)

\* np.linalg.lstsq(A, b)[0] for a symmetric square A: the least-squares
\* solution of minimum norm, x = pinv(A) b.  With N a basis of the null space
\* of A it is the x-part of the unique solution of
\*     A x + N z = b,   N^T x = 0
\* (A x is the part of b in the range of A, N z the part in its null space).
Lstsq(A, b) == LstsqWith(A, b, NullBasis(A), Len(A))

(***************************************************************************)
(* The reference dataset (the Data collaborator): observation i (0-based,  *)
(* as in the source) is at ObsSpace[i + 1], ObsTime[i + 1].  Observations  *)
(* 0 and 1 coincide.  All pairwise Euclidean and cosine distances of the   *)
(* four locations used are rational.                                       *)
(***************************************************************************)
ObsSpace == << <<3, 0>>, <<3, 0>>, <<0, 4>>, <<-3, 0>> >>
ObsTime == <<0, 0, 1, 2>>
NObs == Len(ObsTime)
ObsIds == 0..(NObs - 1)

\* Targets a kriging call may ask for: <<space, time>>.
TargetPoints == { << <<3, 0>>, 0 >>, << <<0, -4>>, 1 >>, << <<0, 4>>, 9 >> }

Sqrt(x) == CHOOSE r \in 0..x : r * r = x

\* sqrt(sum(square(a - b))): nd_kriging's euclidean lag, calc_distance_matrix_2d
Euclidean(a, b) ==
    R(Sqrt((a[1] - b[1]) * (a[1] - b[1]) + (a[2] - b[2]) * (a[2] - b[2])))

\* 1 - cosine similarity
CosineDistance(a, b) ==
    RSub(One, Norm(a[1] * b[1] + a[2] * b[2],
                   Sqrt(a[1] * a[1] + a[2] * a[2]) * Sqrt(b[1] * b[1] + b[2] * b[2])))

SpaceLag(metric, a, b) ==
    IF metric = "euclidean" THEN Euclidean(a, b) ELSE CosineDistance(a, b)

\* np.abs(time_i - time_j): calc_distance_matrix_1d
TimeLag(s, t) == R(Abs(s - t))

(***************************************************************************)
(* The fitted variogram model.  x = <<nugget, sill_s, range_s, sill_t,     *)
(* range_t>>; the family is the sum of a spherical space component and a   *)
(* spherical time component.                                               *)
(***************************************************************************)
Spherical(h, sill, range) ==
    IF RLe(h, range)
    THEN LET q == RDiv(h, range)
         IN  RMul(sill, RSub(RMul(<<3, 2>>, q),
                             RMul(<<1, 2>>, RMul(q, RMul(q, q)))))
    ELSE sill

variogram_model(x, h, t) ==
    RAdd(x[1], RAdd(Spherical(h, x[2], x[3]), Spherical(t, x[4], x[5])))

(***************************************************************************)
(* calc_kriging_weights: the ordinary kriging system with its Lagrange     *)
(* row and column, solved by least squares.  nbrs are observation ids.     *)
(***************************************************************************)
\* variogram_model_function between observations i and j
PairVariogram(x, metric, i, j) ==
    variogram_model(x, SpaceLag(metric, ObsSpace[i + 1], ObsSpace[j + 1]),
                    TimeLag(ObsTime[i + 1], ObsTime[j + 1]))

\* KrigingMatrixOf without A[-1, -1] = 0: the corner stays a one.
KrigingMatrixCornerOne(x, metric, nbrs, n) ==
    Matrix([i \in 1..(n + 1) |->
              [j \in 1..(n + 1) |->
                  IF i <= n /\ j <= n
                  THEN PairVariogram(x, metric, nbrs[i], nbrs[j])
                  ELSE One]],
           n + 1, n + 1)

\* A: ones, the pair variogram in the top left block, 0 in the last corner
KrigingMatrixOf(x, metric, nbrs, n) ==
    Matrix([i \in 1..(n + 1) |->
              [j \in 1..(n + 1) |->
                  IF i <= n /\ j <= n
                  THEN PairVariogram(x, metric, nbrs[i], nbrs[j])
                  ELSE IF i = n + 1 /\ j = n + 1 THEN Zero
                  ELSE One]],
           n + 1, n + 1)

KrigingMatrix(x, metric, nbrs) == KrigingMatrixOf(x, metric, nbrs, Len(nbrs))

\* calc_kriging_weights that drops the first component of the solution
\* instead of the last.
CalcKrigingWeightsDropFirst(x, metric, kriging_vector, nbrs) ==
    SubSeq(Lstsq(KrigingMatrix(x, metric, nbrs), Append(kriging_vector, One)),
           2, Len(kriging_vector) + 1)

calc_kriging_weights(x, metric, kriging_vector, nbrs) ==
    SubSeq(Lstsq(KrigingMatrix(x, metric, nbrs), Append(kriging_vector, One)),
           1, Len(kriging_vector))

(***************************************************************************)
(* Data.get_kriging_idxs: the observations within both distance ceilings   *)
(* of a target, leave-out ids excluded, in ascending id order.  leave_out  *)
(* is None or Some(sequence of observation ids).                           *)
(***************************************************************************)
Range(s) == {s[i] : i \in DOMAIN s}

get_kriging_idxs(target, space_dist_max, time_dist_max, leave_out) ==
    SortedSeq({i \in ObsIds :
                 /\ RLe(Euclidean(ObsSpace[i + 1], target[1]), space_dist_max)
                 /\ RLe(TimeLag(ObsTime[i + 1], target[2]), time_dist_max)
                 /\ (leave_out = None \/ i \notin Range(Val(leave_out)))})

(***************************************************************************)
(* nd_kriging, one target.                                                 *)
(***************************************************************************)
\* np.argsort: the positions of v in ascending order of value (ties by
\* position).
RECURSIVE ArgSortFrom(_, _)
ArgSortFrom(v, left) ==
    IF left = {} THEN <<>>
    ELSE LET lo == CHOOSE i \in left :
                     \A j \in left : RLt(v[i], v[j]) \/ (v[i] = v[j] /\ i <= j)
         IN  <<lo>> \o ArgSortFrom(v, left \ {lo})

ArgSort(v) == ArgSortFrom(v, DOMAIN v)

\* row[:n] = vals on a row of `width` zeros
Padded(vals, width, zero) ==
    Tuple([j \in 1..width |-> IF j <= Len(vals) THEN vals[j] ELSE zero], width)

\* The fields w, kv and idx are row target_i of nd_kriging's three arrays.
\* cand (the candidates), nbrs (the neighbourhood kept) and solved (whether
\* kriging_weights_function was called) record how the row was made.
\* BelowMinimum with the test left out.
NeverBelowMinimum(cand, min_kriging_points) == FALSE

BelowMinimum(cand, min_kriging_points) == Len(cand) < min_kriging_points

\* kriging_vector over all candidates: the model at each candidate's lags
\* to the target
KrigingVector(kf, target, cand) ==
    Tuple([k \in 1..Len(cand) |->
             variogram_model(
                 kf.x,
                 SpaceLag(Val(kf.distance), ObsSpace[cand[k] + 1], target[1]),
                 TimeLag(ObsTime[cand[k] + 1], target[2]))],
          Len(cand))

\* LowestIdxs without the argsort: the first max_kriging_points positions.
FirstIdxs(kriging_vector, max_kriging_points) ==
    IF Len(kriging_vector) > max_kriging_points
    THEN Tuple([k \in 1..max_kriging_points |-> k], max_kriging_points)
    ELSE Tuple([k \in 1..Len(kriging_vector) |-> k], Len(kriging_vector))

\* lowest_idxs, or every position when nothing is cut
LowestIdxs(kriging_vector, max_kriging_points) ==
    IF Len(kriging_vector) > max_kriging_points
    THEN SubSeq(ArgSort(kriging_vector), 1, max_kriging_points)
    ELSE Tuple([k \in 1..Len(kriging_vector) |-> k], Len(kriging_vector))

\* seq[positions]
Take(seq, positions) ==
    Tuple([k \in 1..Len(positions) |-> seq[positions[k]]], Len(positions))

SolvedRow(kf, cand, nbrs, kv, max_kriging_points) ==
    [w |-> Padded(calc_kriging_weights(kf.x, Val(kf.distance), kv, nbrs),
                  max_kriging_points, Zero),
     kv |-> Padded(kv, max_kriging_points, Zero),
     idx |-> Padded(nbrs, max_kriging_points, 0),
     cand |-> cand, nbrs |-> nbrs, solved |-> TRUE]

KeptRow(kf, cand, all, keep, max_kriging_points) ==
    SolvedRow(kf, cand, Take(cand, keep), Take(all, keep), max_kriging_points)

RowFrom(kf, cand, all, max_kriging_points) ==
    KeptRow(kf, cand, all, LowestIdxs(all, max_kriging_points),
            max_kriging_points)

KrigingRow(kf, target, cand, min_kriging_points, max_kriging_points) ==
    IF BelowMinimum(cand, min_kriging_points)
    THEN [w |-> Padded(<<>>, max_kriging_points, Zero),
          kv |-> Padded(<<>>, max_kriging_points, Zero),
          idx |-> Padded(<<>>, max_kriging_points, 0),
          cand |-> cand, nbrs |-> <<>>, solved |-> FALSE]
    ELSE RowFrom(kf, cand, KrigingVector(kf, target, cand),
                 max_kriging_points)

\* nd_kriging over the targets of one call: one row per target.
nd_kriging(kf, targets, space_dist_max, time_dist_max, leave_out, min_kriging_points, max_kriging_points) ==
    Tuple([i \in 1..Len(targets) |->
             KrigingRow(kf, targets[i],
                        get_kriging_idxs(targets[i], space_dist_max,
                                         time_dist_max, leave_out),
                        min_kriging_points, max_kriging_points)],
          Len(targets))

(***************************************************************************)
(* The empirical variogram: every unordered pair of the chosen             *)
(* observations within both ceilings is binned by its lags; the surface is *)
(* the mean squared residual difference of a bin, halved, NaN where the    *)
(* bin is empty.  The pair budget is taken large enough for all pairs.     *)
(***************************************************************************)
RECURSIVE RSumOver(_, _)
RSumOver(S, val) ==
    IF S = {} THEN Zero
    ELSE LET e == CHOOSE e \in S : TRUE
         IN  RAdd(val[e], RSumOver(S \ {e}, val))

\* The positions (i, j), i < j, of n points in the order get_distances'
\* two loops visit them.
RECURSIVE SweepRow(_, _, _)
SweepRow(i, j, n) ==
    IF j > n THEN <<>> ELSE <<<<i, j>>>> \o SweepRow(i, j + 1, n)

RECURSIVE SweepOrderFrom(_, _)
SweepOrderFrom(i, n) ==
    IF i > n THEN <<>> ELSE SweepRow(i, i + 1, n) \o SweepOrderFrom(i + 1, n)

SweepOrder(n) == SweepOrderFrom(1, n)

\* space_lag > space_max or time_lag > time_max: continue
Skipped(a, b, space_max, time_max) ==
    \/ RLt(space_max, Euclidean(ObsSpace[a + 1], ObsSpace[b + 1]))
    \/ RLt(time_max, TimeLag(ObsTime[a + 1], ObsTime[b + 1]))

\* BudgetReached testing ii > el_max.
BudgetExceeded(ii, el_max) == ii > el_max

\* if ii >= el_max: return
BudgetReached(ii, el_max) == ii >= el_max

\* What get_distances returns after recording `pairs` and examining
\* `examined` positions; notice is whether it printed that not all fits.
SweepResult(val, pairs, examined, notice) ==
    [space_lags |-> Tuple([k \in 1..Len(pairs) |->
                             Euclidean(ObsSpace[pairs[k][1] + 1],
                                       ObsSpace[pairs[k][2] + 1])],
                          Len(pairs)),
     time_lags |-> Tuple([k \in 1..Len(pairs) |->
                            TimeLag(ObsTime[pairs[k][1] + 1],
                                    ObsTime[pairs[k][2] + 1])],
                         Len(pairs)),
     sq_val_deltas |-> Tuple([k \in 1..Len(pairs) |->
                                RMul(RSub(val[pairs[k][1] + 1],
                                          val[pairs[k][2] + 1]),
                                     RSub(val[pairs[k][1] + 1],
                                          val[pairs[k][2] + 1]))],
                             Len(pairs)),
     pairs |-> pairs, examined |-> examined, notice |-> notice]

\* The two loops from position k of the sweep on; shuffled is the order
\* np.random.shuffle left the points in (observation ids), pairs the
\* observation pairs recorded so far.
RECURSIVE SweepFrom(_, _, _, _, _, _, _, _)
SweepFrom(val, shuffled, order, k, pairs, space_max, time_max, el_max) ==
    IF k > Len(order) THEN SweepResult(val, pairs, Len(order), FALSE)
    ELSE IF Skipped(shuffled[order[k][1]], shuffled[order[k][2]],
                    space_max, time_max)
    THEN SweepFrom(val, shuffled, order, k + 1, pairs, space_max, time_max,
                   el_max)
    ELSE IF BudgetReached(Len(pairs) + 1, el_max)
    THEN SweepResult(val,
                     Append(pairs, <<shuffled[order[k][1]],
                                     shuffled[order[k][2]]>>),
                     k, TRUE)
    ELSE SweepFrom(val, shuffled, order, k + 1,
                   Append(pairs, <<shuffled[order[k][1]],
                                   shuffled[order[k][2]]>>),
                   space_max, time_max, el_max)

get_distances(val, shuffled, space_max, time_max, el_max) ==
    SweepFrom(val, shuffled, SweepOrder(Len(shuffled)), 1, <<>>, space_max,
              time_max, el_max)

\* get_distances: the pairs it records
EligiblePairs(metric, idxs, space_max, time_max) ==
    {p \in idxs \X idxs :
        /\ p[1] < p[2]
        /\ RLe(SpaceLag(metric, ObsSpace[p[1] + 1], ObsSpace[p[2] + 1]), space_max)
        /\ RLe(TimeLag(ObsTime[p[1] + 1], ObsTime[p[2] + 1]), time_max)}

\* histogram2d's bin index, 0-based: int((x - x_range[0]) / bin_width)
BinIndex(lag, width) == RFloor(RDiv(lag, width))

\* The recorded pairs that histogram2d puts in bin (bx, by), 0-based.
InBin(metric, pairs, width_s, width_t, bx, by) ==
    {p \in pairs :
        /\ BinIndex(SpaceLag(metric, ObsSpace[p[1] + 1], ObsSpace[p[2] + 1]),
                    width_s) = bx
        /\ BinIndex(TimeLag(ObsTime[p[1] + 1], ObsTime[p[2] + 1]),
                    width_t) = by}

\* np.square(val[i] - val[j])
SqValDelta(res, p) ==
    RMul(RSub(res[p[1] + 1], res[p[2] + 1]), RSub(res[p[1] + 1], res[p[2] + 1]))

\* Semivariance without the halving.
SemivarianceUnhalved(res, inbin) ==
    IF inbin = {} THEN NaN
    ELSE RDiv(RSumOver(inbin, [p \in inbin |-> SqValDelta(res, p)]),
              R(Cardinality(inbin)))

\* hist / norm / 2 where norm is not 0, NaN elsewhere
Semivariance(res, inbin) ==
    IF inbin = {} THEN NaN
    ELSE RDiv(RDiv(RSumOver(inbin, [p \in inbin |-> SqValDelta(res, p)]),
                   R(Cardinality(inbin))),
              R(2))

VariogramOf(res, metric, pairs, width_s, width_t, n_space_bins, n_time_bins) ==
    [variogram |->
        Matrix([bx \in 1..n_space_bins |->
                  [by \in 1..n_time_bins |->
                      Semivariance(res, InBin(metric, pairs, width_s, width_t,
                                              bx - 1, by - 1))]],
               n_space_bins, n_time_bins),
     samples_per_bin |->
        Matrix([bx \in 1..n_space_bins |->
                  [by \in 1..n_time_bins |->
                      Cardinality(InBin(metric, pairs, width_s, width_t,
                                        bx - 1, by - 1))]],
               n_space_bins, n_time_bins),
     bin_width_space |-> width_s, bin_width_time |-> width_t]

get_variogram(res, metric, idxs, space_max, time_max, n_space_bins, n_time_bins) ==
    VariogramOf(res, metric, EligiblePairs(metric, idxs, space_max, time_max),
                RDiv(space_max, R(n_space_bins)),
                RDiv(time_max, R(n_time_bins)), n_space_bins, n_time_bins)

\* np.arange(n + 1) * width, then the midpoints of neighbouring edges
BinCenters(n, width) ==
    Tuple([k \in 1..n |->
             RDiv(RAdd(RMul(R(k - 1), width), RMul(R(k), width)), R(2))], n)

(***************************************************************************)
(* The predictor's state.                                                  *)
(***************************************************************************)
VARIABLES
    residuals,                  \* _residuals
    variogram,                  \* _variogram
    bins_space,                 \* _variogram_bins_space
    bins_time,                  \* _variogram_bins_time
    samples_per_bin,            \* _variogram_samples_per_bin
    distance,                   \* _distance
    variogram_fit,              \* _variogram_fit
    variogram_models,           \* _variogram_models
    variogram_model_function,   \* _variogram_model_function
    kriging_weights_function,   \* _kriging_weights_function
    kriging_function,           \* _kriging_function
    files,                      \* the .npz files on disk, by name
    last,                       \* the latest call: what was asked, what came back
    prange                      \* the nd_kriging loop in progress, if any

fields == <<residuals, variogram, bins_space, bins_time, samples_per_bin,
            distance, variogram_fit, variogram_models,
            variogram_model_function, kriging_weights_function,
            kriging_function>>

vars == <<fields, files, last, prange>>

\* The spec's state machine, read off the fields.
Phase ==
    IF kriging_function # None THEN "model_fitted"
    ELSE IF variogram # None THEN "variogram_estimated"
    ELSE "uninitialized"

(***************************************************************************)
(* Bounds and input sets.                                                  *)
(***************************************************************************)
MaxTargets == 2
MaxKrigingPoints == 2
MaxBatch == 2

\* Residual vectors the covariate model may leave, one entry per observation.
ResidualChoices == { <<R(1), R(-1), R(0), R(2)>> }

\* Parameter vectors the optimizer may return: a physical one, one with a
\* nugget only in space, and one whose nugget has wandered below zero.
FitCandidates ==
    { <<R(0), R(2), R(1), R(1), R(1)>>,
      <<R(1), R(1), R(1), R(0), R(1)>>,
      <<R(-1), R(2), R(1), R(1), R(1)>> }

DistanceMetrics == {"euclidean", "cosine"}

\* calc_empirical_variogram's arguments
VariogramArgs ==
    [idxs : {ObsIds}, space_dist_max : {R(12)}, time_dist_max : {R(4)},
     n_space_bins : {2}, n_time_bins : {2}, distance : DistanceMetrics]

MaxBins == 2

MaxBudget == 3

\* The estimator's arguments with maxima that some lag equals exactly: the
\* Euclidean lags of the observations are 0, 5 and 6, the cosine ones 0, 1
\* and 2, the time lags 0, 1 and 2.
EstimatorArgs ==
    [idxs : {ObsIds, {0, 2, 3}}, space_dist_max : {R(2), R(6), R(12)},
     time_dist_max : {R(1), R(4)}, n_space_bins : 1..MaxBins,
     n_time_bins : 1..MaxBins, distance : DistanceMetrics]

\* The orders np.random.shuffle can leave the observations in.
Shuffles == {f \in [1..NObs -> ObsIds] : \A i, j \in 1..NObs : f[i] = f[j] => i = j}

DistancesArgs ==
    [shuffle_idxs : Shuffles, space_max : {R(2), R(5), R(12)},
     time_max : {R(1), R(4)}, el_max : 1..MaxBudget]

TargetSeqs(maxlen) == UNION {[1..n -> TargetPoints] : n \in 0..maxlen}

Ceilings == { <<None, None>>, <<R(8), R(2)>> }

LeaveOuts == {None, Some(<<0>>), Some(<<0, 2>>)}

\* The arguments of a kriging call.
KrigingArgs(targetSeqs, minPoints, maxPoints, leaveOuts, batchSizes) ==
    {[targets |-> t, min_kriging_points |-> lo, max_kriging_points |-> hi,
      space_dist_max |-> c[1], time_dist_max |-> c[2],
      leave_out_idxs |-> l, batch_size |-> b] :
        t \in targetSeqs, lo \in minPoints, hi \in maxPoints, c \in Ceilings,
        l \in leaveOuts, b \in batchSizes}

AllKrigingArgs ==
    KrigingArgs(TargetSeqs(MaxTargets), 0..MaxKrigingPoints,
                0..MaxKrigingPoints, LeaveOuts, 1..MaxBatch)

\* No target, or one target away from every observation.
FewTargets == {t \in TargetSeqs(1) : \A k \in 1..Len(t) : t[k] = <<<<0, -4>>, 1>>}

FewKrigingArgs ==
    KrigingArgs(FewTargets, {1}, {MaxKrigingPoints}, {None}, {1})

SaveNames == {"v", "v.npz"}
LoadNames == {"v", "v.npz", "old.npz"}
DiskNames == {"v.npz", "old.npz"}

(***************************************************************************)
(* get_kriging_weights, get_kriging_prediction: what a call returns in the *)
(* current state.  A call ends [outcome |-> "ok", result |-> ...] or with  *)
(* the exception raised.                                                   *)
(***************************************************************************)
Raised(e) == [outcome |-> e, result |-> None]
Returned(r) == [outcome |-> "ok", result |-> r]

\* self._kriging_function(...): None is not callable; the compiled closure
\* knows the two metrics only.
KrigingFunctionCall(targets, space_dist_max, time_dist_max, leave_out, min_kriging_points, max_kriging_points) ==
    IF kriging_function = None THEN Raised("TypeError")
    ELSE IF Val(kriging_function).distance \notin {Some(m) : m \in DistanceMetrics}
    THEN Raised("NumbaError")
    ELSE Returned(nd_kriging(Val(kriging_function), targets, space_dist_max,
                             time_dist_max, leave_out, min_kriging_points,
                             max_kriging_points))

\* bins[-1]
LastBin(bins) == bins[Len(bins)]

get_kriging_weights(a) ==
    IF \/ (a.space_dist_max = None /\ bins_space = None)
       \/ (a.time_dist_max = None /\ bins_time = None)
    THEN Raised("TypeError")
    ELSE KrigingFunctionCall(
             a.targets,
             IF a.space_dist_max = None THEN LastBin(Val(bins_space))
             ELSE a.space_dist_max,
             IF a.time_dist_max = None THEN LastBin(Val(bins_time))
             ELSE a.time_dist_max,
             a.leave_out_idxs, a.min_kriging_points, a.max_kriging_points)

\* np.sqrt of an exact value: NaN below zero, otherwise the root, kept
\* symbolic as <<numerator, denominator, "sqrt">> unless v is 0.
NpSqrt(v) ==
    IF RLt(v, Zero) THEN NaN
    ELSE IF v = Zero THEN Zero
    ELSE <<v[1], v[2], "sqrt">>

\* np.sum(w * kriging_vectors, axis=1) for one row
RowVariance(row) ==
    RSum(Tuple([j \in 1..Len(row.w) |-> RMul(row.w[j], row.kv[j])],
               Len(row.w)))

\* One row of _get_kriging_prediction_batch's two sums.
PredictionOfRow(row) ==
    [mean |-> RSum(Tuple([j \in 1..Len(row.w) |->
                             RMul(row.w[j], Val(residuals)[row.idx[j] + 1])],
                         Len(row.w))),
     std |-> NpSqrt(RowVariance(row)),
     row |-> row]

\* The two sums over what get_kriging_weights gave; self._residuals[...]
\* cannot subscript None.
PredictionOfRows(got) ==
    IF got.outcome # "ok" THEN got
    ELSE IF residuals = None THEN Raised("TypeError")
    ELSE Returned(Tuple([i \in 1..Len(got.result) |->
                            PredictionOfRow(got.result[i])],
                        Len(got.result)))

_get_kriging_prediction_batch(targets, space_dist_max, time_dist_max, leave_out, min_kriging_points, max_kriging_points) ==
    PredictionOfRows(KrigingFunctionCall(targets, space_dist_max,
                                         time_dist_max, leave_out,
                                         min_kriging_points,
                                         max_kriging_points))

\* seq[start:stop] of Python, 0-based, clamped to the sequence
Slice(seq, start, stop) ==
    SubSeq(seq, start + 1, IF stop < Len(seq) THEN stop ELSE Len(seq))

\* leave_out_idxs_batch of get_kriging_prediction's loop
LeaveOutBatch(leave_out, start, stop) ==
    IF leave_out = None THEN None ELSE Some(Slice(Val(leave_out), start, stop))

\* kriging_mean[batch_slice], kriging_std[batch_slice] = ...: a batch that
\* raises ends the call.
Assigned(got, rest) ==
    IF got.outcome # "ok" THEN got
    ELSE IF rest.outcome # "ok" THEN rest
    ELSE Returned(got.result \o rest.result)

\* min(n_targets, i + batch_size)
BatchStop(a, start) ==
    IF Len(a.targets) < start + a.batch_size THEN Len(a.targets)
    ELSE start + a.batch_size

\* The batches from target `start` (0-based) on.
RECURSIVE PredictFrom(_, _, _, _)
PredictFrom(a, start, space_dist_max, time_dist_max) ==
    IF start >= Len(a.targets) THEN Returned(<<>>)
    ELSE Assigned(
             _get_kriging_prediction_batch(
                 Slice(a.targets, start, BatchStop(a, start)),
                 space_dist_max, time_dist_max,
                 LeaveOutBatch(a.leave_out_idxs, start, BatchStop(a, start)),
                 a.min_kriging_points, a.max_kriging_points),
             PredictFrom(a, start + a.batch_size, space_dist_max,
                         time_dist_max))

get_kriging_prediction(a) ==
    IF \/ (a.space_dist_max = None /\ bins_space = None)
       \/ (a.time_dist_max = None /\ bins_time = None)
    THEN Raised("TypeError")
    ELSE PredictFrom(
             a, 0,
             IF a.space_dist_max = None THEN RDiv(LastBin(Val(bins_space)), R(2))
             ELSE a.space_dist_max,
             IF a.time_dist_max = None THEN RDiv(LastBin(Val(bins_time)), R(2))
             ELSE a.time_dist_max)

(***************************************************************************)
(* Files: np.savez writes the four arrays under their names, to the name   *)
(* given with ".npz" appended unless it ends so already; np.load opens     *)
(* exactly the name given.  A file also remembers the four arrays the      *)
(* predictor held when it was written (held), for the round trip.          *)
(***************************************************************************)
SavezName(filename) == IF filename = "v" THEN "v.npz" ELSE filename

Savez(v, bs, bt, spb) ==
    [variogram |-> v, bins_space |-> bs, bins_time |-> bt,
     samples_per_bin |-> spb]

\* A surface an earlier session estimated and saved as old.npz.
SurfaceArrays(g, n_space_bins, n_time_bins) ==
    <<g.variogram, BinCenters(n_space_bins, g.bin_width_space),
      BinCenters(n_time_bins, g.bin_width_time), g.samples_per_bin>>

OldSurface ==
    SurfaceArrays(get_variogram(CHOOSE r \in ResidualChoices : TRUE,
                                "euclidean", ObsIds, R(8), R(2), 2, 2), 2, 2)

(***************************************************************************)
(* Init: a Predictor as __init__ leaves it.  _variogram_fit,               *)
(* _variogram_models and _variogram_samples_per_bin are not assigned there.*)
(***************************************************************************)
NoCall == [op |-> "none", phase |-> "uninitialized", args |-> None,
           outcome |-> "ok", result |-> None]

Init ==
    /\ residuals = None
    /\ variogram = None
    /\ bins_space = None
    /\ bins_time = None
    /\ samples_per_bin = Unset
    /\ distance = None
    /\ variogram_fit = Unset
    /\ variogram_models = Unset
    /\ variogram_model_function = None
    /\ kriging_weights_function = None
    /\ kriging_function = None
    /\ files = [f \in DiskNames |->
                  IF f = "old.npz"
                  THEN Some([bundle |-> Savez(OldSurface[1], OldSurface[2],
                                              OldSurface[3], OldSurface[4]),
                             held |-> OldSurface])
                  ELSE None]
    /\ last = NoCall
    /\ prange = None

\* The record of a call made in the current state.
Call(op, args, got) ==
    [op |-> op, phase |-> Phase, args |-> args,
     outcome |-> got.outcome, result |-> got.result]

(***************************************************************************)
(* The operations.                                                         *)
(***************************************************************************)
\* fit_covariate_model, then _prepare_geostatistics
FitCovariateModel ==
    \E r \in ResidualChoices :
        /\ residuals' = Some(r)
        /\ UNCHANGED prange
        /\ last' = Call("fit_covariate_model", None, Returned(None))
        /\ UNCHANGED <<variogram, bins_space, bins_time, samples_per_bin,
                       distance, variogram_fit, variogram_models,
                       variogram_model_function, kriging_weights_function,
                       kriging_function, files>>

\* The five assignments that end calc_empirical_variogram.
Estimated(a, g) ==
    /\ variogram' = Some(g.variogram)
    /\ distance' = Some(a.distance)
    /\ bins_space' = Some(BinCenters(a.n_space_bins, g.bin_width_space))
    /\ bins_time' = Some(BinCenters(a.n_time_bins, g.bin_width_time))
    /\ samples_per_bin' = Some(g.samples_per_bin)

CalcEmpiricalVariogramOf(argset) ==
    \E a \in argset :
        IF residuals = None
        THEN /\ UNCHANGED prange
             /\ last' = Call("calc_empirical_variogram", a, Raised("TypeError"))
             /\ UNCHANGED <<fields, files>>
        ELSE /\ Estimated(a, get_variogram(Val(residuals), a.distance, a.idxs,
                                           a.space_dist_max, a.time_dist_max,
                                           a.n_space_bins, a.n_time_bins))
             /\ UNCHANGED prange
             /\ last' = Call("calc_empirical_variogram", a, Returned(None))
             /\ UNCHANGED <<residuals, variogram_fit, variogram_models,
                            variogram_model_function,
                            kriging_weights_function, kriging_function,
                            files>>

CalcEmpiricalVariogram == CalcEmpiricalVariogramOf(VariogramArgs)

\* A call of get_distances on the residuals.
GetDistances ==
    \E a \in DistancesArgs :
        /\ residuals # None
        /\ UNCHANGED prange
        /\ last' = Call("get_distances", a,
                        Returned(get_distances(Val(residuals), a.shuffle_idxs,
                                               a.space_max, a.time_max,
                                               a.el_max)))
        /\ UNCHANGED <<fields, files>>

SaveEmpiricalVariogram ==
    \E filename \in SaveNames :
        IF variogram = None
        THEN /\ UNCHANGED prange
             /\ last' = Call("save_empirical_variogram", filename,
                             Raised("ValueError"))
             /\ UNCHANGED <<fields, files>>
        ELSE /\ files' = [files EXCEPT ![SavezName(filename)] =
                            Some([bundle |-> Savez(Val(variogram),
                                                   Val(bins_space),
                                                   Val(bins_time),
                                                   Val(samples_per_bin)),
                                  held |-> <<Val(variogram), Val(bins_space),
                                             Val(bins_time),
                                             Val(samples_per_bin)>>])]
             /\ UNCHANGED prange
             /\ last' = Call("save_empirical_variogram", filename,
                             Returned(None))
             /\ UNCHANGED fields

\* Loaded with the two bin arrays read under each other's key.
LoadedSwapped(data) ==
    <<data.variogram, data.bins_time, data.bins_space, data.samples_per_bin>>

\* The four assignments of load_empirical_variogram from the opened bundle.
Loaded(data) ==
    <<data.variogram, data.bins_space, data.bins_time, data.samples_per_bin>>

Assign4(got) ==
    /\ variogram' = Some(got[1])
    /\ bins_space' = Some(got[2])
    /\ bins_time' = Some(got[3])
    /\ samples_per_bin' = Some(got[4])

LoadEmpiricalVariogram ==
    \E filename \in LoadNames :
        IF filename \notin DiskNames \/ files[filename] = None
        THEN /\ UNCHANGED prange
             /\ last' = Call("load_empirical_variogram", filename,
                             Raised("FileNotFoundError"))
             /\ UNCHANGED <<fields, files>>
        ELSE /\ Assign4(Loaded(Val(files[filename]).bundle))
             /\ UNCHANGED prange
             /\ last' = Call("load_empirical_variogram", filename,
                                 Returned(None))
             /\ UNCHANGED <<residuals, distance, variogram_fit,
                            variogram_models, variogram_model_function,
                            kriging_weights_function, kriging_function,
                            files>>

\* FitRaises if the polyfit took None for an array.
FitNeverRaises == FALSE

\* self._variogram[:, 0] of the first polyfit: None cannot be subscripted.
FitRaises == variogram = None

\* The model family and shapes a fit is asked for.
FitModels == <<"sum", "spherical", "spherical", "spherical">>

\* What scipy's minimize may hand back for the surface held: the parameter
\* vector, whether Nelder-Mead converged, and (fitted_to) the surface the
\* cost was measured on.
Minimize ==
    [x : FitCandidates, success : BOOLEAN, fitted_to : {variogram}]

\* StoredFit with the optimizer's status overwritten.
StoredFitConverged(r) == Some([r EXCEPT !.success = TRUE])

\* self._variogram_fit = variogram_fit
StoredFit(r) == Some(r)

FitVariogramModel ==
    IF FitRaises
    THEN /\ UNCHANGED prange
         /\ last' = Call("fit_variogram_model", FitModels, Raised("TypeError"))
         /\ UNCHANGED <<fields, files>>
    ELSE \E r \in Minimize :
            /\ variogram_fit' = StoredFit(r)
            /\ variogram_models' = Some(FitModels)
            /\ variogram_model_function' =
                   Some([x |-> r.x, models |-> FitModels])
            /\ kriging_weights_function' =
                   Some([x |-> r.x, distance |-> distance])
            /\ kriging_function' = Some([x |-> r.x, distance |-> distance])
            /\ UNCHANGED prange
            /\ last' = Call("fit_variogram_model",
                            [models |-> FitModels, minimize |-> r],
                            Returned(None))
            /\ UNCHANGED <<residuals, variogram, bins_space, bins_time,
                           samples_per_bin, distance, files>>

\* self._variogram_model_function(h, t) over np.meshgrid(bins_space,
\* bins_time, indexing="ij")
ModelGrid(f, bs, bt) ==
    Matrix([i \in 1..Len(bs) |->
              [j \in 1..Len(bt) |-> variogram_model(f.x, bs[i], bt[j])]],
           Len(bs), Len(bt))

\* get_variogram_model_grid: reading self._variogram_fit before any fit
\* has assigned it is an AttributeError; the ValueError is for a None.
get_variogram_model_grid ==
    IF variogram_fit = Unset THEN Raised("AttributeError")
    ELSE IF variogram_fit = None THEN Raised("ValueError")
    ELSE Returned(ModelGrid(Val(variogram_model_function), Val(bins_space),
                            Val(bins_time)))

GetVariogramModelGrid ==
    /\ UNCHANGED prange
    /\ last' = Call("get_variogram_model_grid", None, get_variogram_model_grid)
    /\ UNCHANGED <<fields, files>>

GetKrigingWeights(argset) ==
    \E a \in argset :
        /\ UNCHANGED prange
        /\ last' = Call("get_kriging_weights", a, get_kriging_weights(a))
        /\ UNCHANGED <<fields, files>>

\* GetKrigingPrediction that keeps the ceilings it defaulted to: the bin
\* centers are overwritten with their halves.
GetKrigingPredictionKeepingCeilings(argset) ==
    \E a \in argset :
        /\ UNCHANGED prange
        /\ last' = Call("get_kriging_prediction", a, get_kriging_prediction(a))
        /\ bins_space' =
               IF bins_space = None \/ a.space_dist_max # None THEN bins_space
               ELSE Some(Tuple([k \in 1..Len(Val(bins_space)) |->
                                  RDiv(Val(bins_space)[k], R(2))],
                               Len(Val(bins_space))))
        /\ UNCHANGED <<residuals, variogram, bins_time, samples_per_bin,
                       distance, variogram_fit, variogram_models,
                       variogram_model_function, kriging_weights_function,
                       kriging_function, files>>

GetKrigingPrediction(argset) ==
    \E a \in argset :
        /\ UNCHANGED prange
        /\ last' = Call("get_kriging_prediction", a, get_kriging_prediction(a))
        /\ UNCHANGED <<fields, files>>

Next ==
    \/ FitCovariateModel
    \/ CalcEmpiricalVariogram
    \/ SaveEmpiricalVariogram
    \/ LoadEmpiricalVariogram
    \/ FitVariogramModel
    \/ GetVariogramModelGrid
    \/ GetKrigingWeights(FewKrigingArgs)
    \/ GetKrigingPrediction(FewKrigingArgs)

Spec == Init /\ [][Next]_vars

(***************************************************************************)
(* One kriging call on a predictor brought to model_fitted by the shortest *)
(* path: fit the covariate model, estimate the variogram, fit the model.   *)
(* The kriging closures capture the fitted x and never read the            *)
(* optimizer's status, so only fits reported as converged are followed.    *)
(***************************************************************************)
KrigingOps == {"get_kriging_weights", "get_kriging_prediction"}

WeightsArgs == {a \in AllKrigingArgs : a.batch_size = 1}

NextKriging ==
    \/ residuals = None /\ FitCovariateModel
    \/ residuals # None /\ variogram = None /\ CalcEmpiricalVariogram
    \/ variogram # None /\ kriging_function = None /\ FitVariogramModel
         /\ Val(variogram_fit').success
    \/ Phase = "model_fitted" /\ last.op \notin KrigingOps
         /\ GetKrigingWeights(WeightsArgs)
    \/ Phase = "model_fitted" /\ last.op \notin KrigingOps
         /\ GetKrigingPrediction(AllKrigingArgs)

SpecKriging == Init /\ [][NextKriging]_vars

(***************************************************************************)
(* The prange loop of nd_kriging, one iteration at a time and in any       *)
(* order, inside one get_kriging_weights call on a fitted predictor.       *)
(* prange is None or Some of a record: a (the call's arguments), kf (the   *)
(* closure), cands (kriging_idxs by target), pending (the targets whose    *)
(* iteration has not run) and rows (the three output arrays, by row).      *)
(***************************************************************************)
\* A row of the np.zeros arrays nd_kriging starts from.
ZeroRow(max_kriging_points) ==
    [w |-> Padded(<<>>, max_kriging_points, Zero),
     kv |-> Padded(<<>>, max_kriging_points, Zero),
     idx |-> Padded(<<>>, max_kriging_points, 0),
     cand |-> <<>>, nbrs |-> <<>>, solved |-> FALSE]

\* The ceilings get_kriging_weights passes on.
WeightsSpaceMax(a) ==
    IF a.space_dist_max = None THEN LastBin(Val(bins_space))
    ELSE a.space_dist_max

WeightsTimeMax(a) ==
    IF a.time_dist_max = None THEN LastBin(Val(bins_time))
    ELSE a.time_dist_max

ParallelArgs ==
    KrigingArgs(TargetSeqs(MaxTargets), {1}, {MaxKrigingPoints}, {None}, {1})

\* get_kriging_weights up to the loop: the candidates are looked up, the
\* three arrays are zeros.
StartKriging ==
    /\ Phase = "model_fitted"
    /\ prange = None
    /\ last.op \notin KrigingOps
    /\ \E a \in ParallelArgs :
          prange' =
              Some([a |-> a,
                    kf |-> Val(kriging_function),
                    cands |-> Tuple([i \in 1..Len(a.targets) |->
                                       get_kriging_idxs(a.targets[i],
                                                        WeightsSpaceMax(a),
                                                        WeightsTimeMax(a),
                                                        a.leave_out_idxs)],
                                    Len(a.targets)),
                    pending |-> 1..Len(a.targets),
                    rows |-> Tuple([i \in 1..Len(a.targets) |->
                                      ZeroRow(a.max_kriging_points)],
                                   Len(a.targets))])
    /\ UNCHANGED <<fields, files, last>>

\* RowWritten if results were stored in the order the iterations finish.
RowWrittenInArrivalOrder(target_i, done) == done + 1

\* The row iteration target_i assigns: kriging_weights[target_i, ...],
\* kriging_idx_matrix[target_i, ...], kriging_vectors[target_i, ...].
RowWritten(target_i, done) == target_i

\* The loop body for target_i, run on the loop state p.
Iterated(p, target_i) ==
    [p EXCEPT
       !.pending = @ \ {target_i},
       !.rows[RowWritten(target_i, Len(p.rows) - Cardinality(p.pending))] =
           KrigingRow(p.kf, p.a.targets[target_i], p.cands[target_i],
                      p.a.min_kriging_points, p.a.max_kriging_points)]

Iterate ==
    /\ prange # None
    /\ \E target_i \in Val(prange).pending :
          prange' = Some(Iterated(Val(prange), target_i))
    /\ UNCHANGED <<fields, files, last>>

\* return kriging_weights, kriging_vectors, kriging_idx_matrix
FinishKriging ==
    /\ prange # None
    /\ Val(prange).pending = {}
    /\ last' = Call("get_kriging_weights", Val(prange).a,
                    Returned(Val(prange).rows))
    /\ prange' = None
    /\ UNCHANGED <<fields, files>>

NextParallel ==
    \/ residuals = None /\ FitCovariateModel
    \/ residuals # None /\ variogram = None /\ CalcEmpiricalVariogram
    \/ variogram # None /\ kriging_function = None /\ FitVariogramModel
         /\ Val(variogram_fit').success
    \/ StartKriging
    \/ Iterate
    \/ FinishKriging

SpecParallel == Init /\ [][NextParallel]_vars

(***************************************************************************)
(* The estimator alone, over maxima that some lag equals, and the pair     *)
(* sweep alone, over every shuffle and small budgets.                      *)
(***************************************************************************)
NextEstimator ==
    \/ FitCovariateModel
    \/ CalcEmpiricalVariogramOf(EstimatorArgs)

SpecEstimator == Init /\ [][NextEstimator]_vars

NextDistances ==
    \/ FitCovariateModel
    \/ GetDistances

SpecDistances == Init /\ [][NextDistances]_vars

(***************************************************************************)
(* Properties of the lifecycle (Spec).                                     *)
(***************************************************************************)
\* C1: fit_variogram_model on a predictor with no empirical variogram
\* (uninitialized) ends with an error raised to the caller, and the
\* predictor is not in model_fitted afterwards.
FitBeforeVariogramFails ==
    (last.op = "fit_variogram_model" /\ last.phase = "uninitialized")
        => (last.outcome # "ok" /\ last.result = None
            /\ Phase # "model_fitted")

\* A fit was tried on an uninitialized predictor that already has residuals.
FitBeforeVariogramTried ==
    /\ last.op = "fit_variogram_model"
    /\ last.phase = "uninitialized"
    /\ last.outcome = "TypeError"
    /\ residuals # None

\* C2: get_kriging_weights and get_kriging_prediction succeed only after a
\* fit_variogram_model has completed; in uninitialized and in
\* variogram_estimated both end with an error and return nothing.
KrigingNeedsFittedModel ==
    (last.op \in KrigingOps /\ last.phase # "model_fitted")
        => (last.outcome # "ok" /\ last.result = None)

\* C7: after save_empirical_variogram and load_empirical_variogram of the
\* same file, the surface, the space bin centers, the time bin centers and
\* the samples per bin are the four arrays held when the file was written.
SaveLoadIdentity ==
    (last.op = "load_empirical_variogram" /\ last.outcome = "ok")
        => <<variogram, bins_space, bins_time, samples_per_bin>>
             = <<Some(Val(files[last.args]).held[1]),
                 Some(Val(files[last.args]).held[2]),
                 Some(Val(files[last.args]).held[3]),
                 Some(Val(files[last.args]).held[4])>>

\* A file this predictor saved under the name "v" was loaded back as
\* "v.npz"; what it holds is not the surface of the older file.
SavedFileLoaded ==
    /\ last.op = "load_empirical_variogram"
    /\ last.outcome = "ok"
    /\ last.args = "v.npz"
    /\ Val(files["v.npz"]).held # OldSurface
    /\ Val(bins_space) # Val(bins_time)

\* C11: a fit whose optimizer did not converge does not raise; the
\* optimizer's result, status included, is what the predictor stores, and
\* the predictor is in model_fitted afterwards.
UnconvergedFitStored ==
    (last.op = "fit_variogram_model" /\ last.phase # "uninitialized") =>
        /\ last.outcome = "ok"
        /\ variogram_fit = Some(last.args.minimize)
        /\ Phase = "model_fitted"

\* A fit ended with the optimizer reporting no convergence.
UnconvergedFitSeen ==
    /\ last.op = "fit_variogram_model"
    /\ last.outcome = "ok"
    /\ ~last.args.minimize.success
    /\ ~Val(variogram_fit).success

\* C13: get_kriging_weights and get_kriging_prediction change no field of
\* the predictor and no file, and a call repeated in the same state gives
\* the same result.
KrigingChangesNothing ==
    [][last'.op \in KrigingOps =>
          /\ fields' = fields
          /\ files' = files
          /\ (last.op = last'.op /\ last.args = last'.args) => last' = last
      ]_vars

\* A kriging call on a fitted predictor returned rows for a target.
KrigingAnswered ==
    /\ last.op \in KrigingOps
    /\ last.phase = "model_fitted"
    /\ last.outcome = "ok"
    /\ Len(last.result) >= 1
    /\ last.args.space_dist_max = None

\* C18: get_variogram_model_grid on a predictor on which no fit has
\* completed raises ValueError.
GridBeforeFitIsValueError ==
    (last.op = "get_variogram_model_grid" /\ last.phase # "model_fitted")
        => last.outcome = "ValueError"

\* C19: a loaded surface serves like an estimated one: on a predictor that
\* never estimated a variogram, load then fit then get_kriging_weights
\* completes, the kriging closures holding a defined distance metric.
LoadedSurfaceServes ==
    /\ Phase = "model_fitted" =>
           Val(kriging_function).distance
               \in {Some(m) : m \in DistanceMetrics}
    /\ (last.op = "get_kriging_weights" /\ last.phase = "model_fitted")
           => last.outcome = "ok"

\* C20: whenever kriging is permitted, the fitted model is the one fitted
\* to the surface now held and the closures' metric is the metric now held.
ModelMatchesSurface ==
    Phase = "model_fitted" =>
        /\ Val(variogram_fit).fitted_to = variogram
        /\ Val(kriging_function).distance = distance

(***************************************************************************)
(* Properties of one kriging call on a fitted predictor (SpecKriging).     *)
(***************************************************************************)
KrigingReturned == last.op \in KrigingOps /\ last.outcome = "ok"

PredictionReturned ==
    last.op = "get_kriging_prediction" /\ last.outcome = "ok"

WeightsReturned == last.op = "get_kriging_weights" /\ last.outcome = "ok"

\* Row i of the last kriging call.
RowAt(i) ==
    IF last.op = "get_kriging_weights" THEN last.result[i]
    ELSE last.result[i].row

\* The fitted model between a target and observation o, as the kriging
\* closure captured it.
ModelAt(target, o) ==
    variogram_model(Val(kriging_function).x,
                    SpaceLag(Val(Val(kriging_function).distance),
                             ObsSpace[o + 1], target[1]),
                    TimeLag(ObsTime[o + 1], target[2]))

\* C3: a target with fewer candidates than min_kriging_points gets an
\* all-zero weight row, and get_kriging_prediction returns mean 0 and
\* standard deviation 0 for it, whatever the fitted parameters.
BelowMinimumGivesZeros ==
    KrigingReturned =>
        \A i \in 1..Len(last.result) :
            Len(RowAt(i).cand) < last.args.min_kriging_points =>
                /\ \A j \in 1..Len(RowAt(i).w) : RowAt(i).w[j] = Zero
                /\ last.op = "get_kriging_prediction" =>
                       /\ last.result[i].mean = Zero
                       /\ last.result[i].std = Zero

\* A prediction had a target with some candidates, but fewer than
\* min_kriging_points, next to a target that was solved.
BelowMinimumSeen ==
    /\ PredictionReturned
    /\ last.args.max_kriging_points >= 1
    /\ \E i \in 1..Len(last.result) :
          /\ Len(RowAt(i).cand) >= 1
          /\ Len(RowAt(i).cand) < last.args.min_kriging_points
    /\ \E i \in 1..Len(last.result) : RowAt(i).solved

\* C4: no observation listed in leave_out_idxs is a neighbour of any target
\* of a get_kriging_prediction call, whatever the batch size and whatever
\* the length of leave_out_idxs.
LeaveOutNeverNeighbour ==
    (PredictionReturned /\ last.args.leave_out_idxs # None) =>
        \A i \in 1..Len(last.result) :
            Range(RowAt(i).nbrs) \cap Range(Val(last.args.leave_out_idxs))
                = {}

\* C5: the weights solved for a neighbourhood of n >= 1 candidates sum to
\* 1, also when duplicate neighbours make the system singular.
WeightsSumToOne ==
    KrigingReturned =>
        \A i \in 1..Len(last.result) :
            (RowAt(i).solved /\ Len(RowAt(i).nbrs) >= 1) =>
                RSum(RowAt(i).w) = One

\* Weights were solved for a neighbourhood holding the two coinciding
\* observations 0 and 1.
DuplicateNeighboursSolved ==
    /\ WeightsReturned
    /\ \E i \in 1..Len(last.result) :
          /\ RowAt(i).solved
          /\ {0, 1} \subseteq Range(RowAt(i).nbrs)

\* C6: the kriging variance sum(w * kriging_vector) of every target is
\* >= 0 and the standard deviation returned is a defined number >= 0.
KrigingVarianceNonNegative ==
    PredictionReturned =>
        \A i \in 1..Len(last.result) :
            /\ RLe(Zero, RowVariance(RowAt(i)))
            /\ last.result[i].std # NaN

\* What a prediction call gives the caller: the two arrays, paired by
\* target.
MeanStd(got) ==
    [outcome |-> got.outcome,
     arrays |-> IF got.outcome # "ok" THEN <<>>
                ELSE Tuple([i \in 1..Len(got.result) |->
                              <<got.result[i].mean, got.result[i].std>>],
                           Len(got.result))]

\* C8: with the predictor, the targets, the ceilings and leave_out_idxs
\* fixed, get_kriging_prediction returns the same two arrays for every
\* batch_size >= 1.
BatchSizeIrrelevant ==
    last.op = "get_kriging_prediction" =>
        \A b \in 1..MaxBatch :
            MeanStd(get_kriging_prediction([last.args EXCEPT !.batch_size = b]))
                = MeanStd([outcome |-> last.outcome, result |-> last.result])

Min2(a, b) == IF a < b THEN a ELSE b

\* Row i of A applied to the weights, over the n neighbours.
SystemRow(A, w, i, n) ==
    RSum(Tuple([j \in 1..n |-> RMul(A[i][j], w[j])], n))

\* w solves the kriging system set up on the neighbours idx[1..n] in their
\* order, with right-hand side kv[1..n]: every equation leaves the same
\* Lagrange multiplier.
SolvesSystemOf(A, w, kv, n) ==
    \A i \in 1..n :
        RSub(kv[i], SystemRow(A, w, i, n)) = RSub(kv[1], SystemRow(A, w, 1, n))

SolvesSystem(row, n) ==
    SolvesSystemOf(KrigingMatrix(Val(kriging_function).x,
                                 Val(Val(kriging_function).distance),
                                 SubSeq(row.idx, 1, n)),
                   row.w, row.kv, n)

NeighbourhoodKept(row, target, max_kriging_points) ==
    /\ Len(row.nbrs) = Min2(Len(row.cand), max_kriging_points)
    /\ Range(row.nbrs) \subseteq Range(row.cand)
    /\ Cardinality(Range(row.nbrs)) = Len(row.nbrs)
    /\ \A k \in Range(row.nbrs) :
          \A d \in Range(row.cand) \ Range(row.nbrs) :
              RLe(ModelAt(target, k), ModelAt(target, d))
    /\ \A j \in 1..Len(row.nbrs) :
          /\ row.idx[j] = row.nbrs[j]
          /\ row.kv[j] = ModelAt(target, row.idx[j])
    /\ SolvesSystem(row, Len(row.nbrs))

\* C9: the neighbourhood solved for has min(candidate count,
\* max_kriging_points) members; when candidates are cut, every kept
\* candidate's kriging-vector value is <= every discarded one's; and index,
\* kriging value and weight of a neighbour sit at the same position.
LowestCandidatesKept ==
    KrigingReturned =>
        \A i \in 1..Len(last.result) :
            RowAt(i).solved =>
                NeighbourhoodKept(RowAt(i), last.args.targets[i],
                                  last.args.max_kriging_points)

\* Candidates were cut, and the ones kept are not simply the first ones.
CandidatesCut ==
    /\ WeightsReturned
    /\ \E i \in 1..Len(last.result) :
          /\ RowAt(i).solved
          /\ Len(RowAt(i).cand) > last.args.max_kriging_points
          /\ last.args.max_kriging_points >= 2
          /\ RowAt(i).nbrs
               # SubSeq(RowAt(i).cand, 1, last.args.max_kriging_points)

\* C10: calc_kriging_weights is never called for a target with no
\* candidates, whatever min_kriging_points is (0 included).
SolverNeverGetsEmptyNeighbourhood ==
    KrigingReturned =>
        \A i \in 1..Len(last.result) :
            Len(RowAt(i).cand) = 0 => ~RowAt(i).solved

\* The fitted model between the places of observations a and b.
ModelBetween(a, b) == ModelAt(<<ObsSpace[a + 1], ObsTime[a + 1]>>, b)

\* Equation i of the kriging system over the neighbours nbrs, read at the
\* weights w: sum_j gamma(nbrs[i], nbrs[j]) * w[j].
GammaRow(nbrs, w, i) ==
    RSum(Tuple([j \in 1..Len(nbrs) |->
                  RMul(ModelBetween(nbrs[i], nbrs[j]), w[j])],
               Len(nbrs)))

\* The Lagrange component that equation 1 leaves.
Lagrange(row) == RSub(row.kv[1], GammaRow(row.nbrs, row.w, 1))

\* (w, Lagrange) solves the bordered system: the n variogram equations with
\* a one in the last column, and the row of ones with a zero corner.
BorderedSystemSolved(row, max_kriging_points) ==
    /\ Len(row.w) = max_kriging_points
    /\ \A i \in 1..Len(row.nbrs) :
          RAdd(GammaRow(row.nbrs, row.w, i), RMul(One, Lagrange(row)))
              = row.kv[i]
    /\ RAdd(RSum(SubSeq(row.w, 1, Len(row.nbrs))), RMul(Zero, Lagrange(row)))
          = One
    /\ \A j \in (Len(row.nbrs) + 1)..max_kriging_points : row.w[j] = Zero

\* C17: for n neighbours the weights returned are the first n components,
\* in the neighbours' order, of the solution of the (n+1)x(n+1) system
\* made of the neighbour-pair variogram block, a last row and column of
\* ones with a zero corner, and the kriging vector followed by 1.
KrigingSystemSolved ==
    WeightsReturned =>
        \A i \in 1..Len(last.result) :
            (RowAt(i).solved /\ Len(RowAt(i).nbrs) >= 1) =>
                BorderedSystemSolved(RowAt(i), last.args.max_kriging_points)

\* Weights came back for two neighbours that are not interchangeable: their
\* kriging values differ and so do their weights.
DistinctNeighboursSolved ==
    /\ WeightsReturned
    /\ \E i \in 1..Len(last.result) :
          /\ RowAt(i).solved
          /\ Len(RowAt(i).nbrs) = 2
          /\ RowAt(i).kv[1] # RowAt(i).kv[2]
          /\ RowAt(i).w[1] # RowAt(i).w[2]
          /\ Lagrange(RowAt(i)) # Zero

(***************************************************************************)
(* Properties of the prange loop (SpecParallel).                           *)
(***************************************************************************)
\* The three arrays of a row.
Arrays(row) == <<row.w, row.kv, row.idx>>

\* Row i of the arrays while the loop runs: zeros until iteration i has
\* run, then what the loop run in target order gives for target i.
RowSettled(p, i) ==
    Arrays(p.rows[i]) =
        IF i \in p.pending THEN Arrays(ZeroRow(p.a.max_kriging_points))
        ELSE Arrays(get_kriging_weights(p.a).result[i])

\* C12: the iteration for target i writes row i of the three arrays only
\* and reads nothing an iteration writes, so in whatever order the
\* iterations run the arrays returned are those of the loop run in target
\* order.
IterationOrderIrrelevant ==
    /\ prange # None =>
          \A i \in 1..Len(Val(prange).rows) : RowSettled(Val(prange), i)
    /\ (prange = None /\ last.op = "get_kriging_weights") =>
          last.result = get_kriging_weights(last.args).result

\* A later target's iteration has run before an earlier one's, and the two
\* rows differ.
LaterTargetFirst ==
    /\ prange # None
    /\ Len(Val(prange).rows) >= 2
    /\ 1 \in Val(prange).pending
    /\ 2 \notin Val(prange).pending
    /\ Val(prange).rows[2].solved
    /\ Arrays(Val(prange).rows[2])
         # Arrays(get_kriging_weights(Val(prange).a).result[1])

(***************************************************************************)
(* Properties of the estimator (SpecEstimator).                            *)
(***************************************************************************)
Calculated == last.op = "calc_empirical_variogram" /\ last.outcome = "ok"

\* The unordered pairs of distinct points of the call within both maxima.
PairsWithinMaxima(a) ==
    {q \in SUBSET a.idxs :
        /\ Cardinality(q) = 2
        /\ \E i \in q : \E j \in q \ {i} :
              /\ ~ RLt(a.space_dist_max,
                       SpaceLag(a.distance, ObsSpace[i + 1], ObsSpace[j + 1]))
              /\ ~ RLt(a.time_dist_max,
                       TimeLag(ObsTime[i + 1], ObsTime[j + 1]))}

RECURSIVE SeqSum(_)
SeqSum(q) == IF q = <<>> THEN 0 ELSE Head(q) + SeqSum(Tail(q))

\* The sum of all per-bin sample counts of the stored surface.
CountedPairs ==
    SeqSum([bx \in 1..Len(Val(samples_per_bin)) |->
              SeqSum(Val(samples_per_bin)[bx])])

\* A pair within both maxima with a lag equal to its maximum.
LagAtMaximum(a) ==
    \E q \in PairsWithinMaxima(a) : \E i \in q : \E j \in q \ {i} :
        \/ SpaceLag(a.distance, ObsSpace[i + 1], ObsSpace[j + 1])
              = a.space_dist_max
        \/ TimeLag(ObsTime[i + 1], ObsTime[j + 1]) = a.time_dist_max

\* C14: after an estimation whose budget holds all eligible pairs, the sum
\* of all per-bin sample counts equals the number of unordered pairs of
\* distinct points with space lag <= space_max and time lag <= time_max,
\* pairs whose lag equals a maximum included.
EveryEligiblePairCounted ==
    Calculated => CountedPairs = Cardinality(PairsWithinMaxima(last.args))

\* The ordered pairs i < j of the call whose lags fall in the half-open
\* cell [bx*w_s, (bx+1)*w_s) x [by*w_t, (by+1)*w_t), bx and by 0-based.
PairsInCell(a, bx, by) ==
    LET w_s == RDiv(a.space_dist_max, R(a.n_space_bins))
        w_t == RDiv(a.time_dist_max, R(a.n_time_bins))
    IN  {p \in a.idxs \X a.idxs :
            /\ p[1] < p[2]
            /\ LET s == SpaceLag(a.distance, ObsSpace[p[1] + 1],
                                 ObsSpace[p[2] + 1])
                   t == TimeLag(ObsTime[p[1] + 1], ObsTime[p[2] + 1])
               IN  /\ RLe(RMul(R(bx), w_s), s)
                   /\ RLt(s, RMul(R(bx + 1), w_s))
                   /\ RLe(RMul(R(by), w_t), t)
                   /\ RLt(t, RMul(R(by + 1), w_t))}

\* The squared residual differences accumulated over a set of pairs.
AccumulatedOver(pairs) ==
    RSumOver(pairs,
             [p \in pairs |->
                RMul(RSub(Val(residuals)[p[1] + 1], Val(residuals)[p[2] + 1]),
                     RSub(Val(residuals)[p[1] + 1], Val(residuals)[p[2] + 1]))])

BinSettled(a, bx, by) ==
    /\ Val(samples_per_bin)[bx][by] = Cardinality(PairsInCell(a, bx - 1, by - 1))
    /\ IF Val(samples_per_bin)[bx][by] = 0
       THEN Val(variogram)[bx][by] = NaN
       ELSE /\ Val(variogram)[bx][by] # NaN
            /\ RMul(Val(variogram)[bx][by],
                    R(2 * Val(samples_per_bin)[bx][by]))
                 = AccumulatedOver(PairsInCell(a, bx - 1, by - 1))

\* C16: an estimation on fitted residuals does not fail, and in every bin
\* of its surface a sample count > 0 comes with the semivariance
\* (accumulated squared residual differences) / count / 2 and a sample
\* count of 0 with NaN.
SemivariancePerBin ==
    (last.op = "calc_empirical_variogram" /\ residuals # None) =>
        /\ last.outcome = "ok"
        /\ \A bx \in 1..last.args.n_space_bins :
             \A by \in 1..last.args.n_time_bins :
                 BinSettled(last.args, bx, by)

\* A surface with an empty bin and a bin of several pairs whose squared
\* differences are not all the same.
EmptyAndFullBins ==
    /\ Calculated
    /\ \E bx \in 1..last.args.n_space_bins :
         \E by \in 1..last.args.n_time_bins :
             Val(samples_per_bin)[bx][by] = 0
    /\ \E bx \in 1..last.args.n_space_bins :
         \E by \in 1..last.args.n_time_bins :
             /\ Val(samples_per_bin)[bx][by] >= 2
             /\ Val(variogram)[bx][by] # Zero

(***************************************************************************)
(* Properties of the pair sweep (SpecDistances).                           *)
(***************************************************************************)
Swept == last.op = "get_distances"

\* The sweep positions of a call whose pair is within both maxima, in
\* sweep order.
EligiblePositions(a) ==
    LET order == SweepOrder(NObs)
        Within(k) ==
            /\ RLe(Euclidean(ObsSpace[a.shuffle_idxs[order[k][1]] + 1],
                             ObsSpace[a.shuffle_idxs[order[k][2]] + 1]),
                   a.space_max)
            /\ RLe(TimeLag(ObsTime[a.shuffle_idxs[order[k][1]] + 1],
                           ObsTime[a.shuffle_idxs[order[k][2]] + 1]),
                   a.time_max)
    IN  SelectSeq([k \in 1..Len(order) |-> k], Within)

\* The call recorded exactly the first n eligible pairs of the sweep.
RecordedFirst(a, r, elig, n) ==
    /\ Len(r.pairs) = n
    /\ Len(r.space_lags) = n
    /\ Len(r.time_lags) = n
    /\ Len(r.sq_val_deltas) = n
    /\ \A k \in 1..n :
         LET i == a.shuffle_idxs[SweepOrder(NObs)[elig[k]][1]]
             j == a.shuffle_idxs[SweepOrder(NObs)[elig[k]][2]]
         IN  /\ r.pairs[k] = <<i, j>>
             /\ r.space_lags[k] = Euclidean(ObsSpace[i + 1], ObsSpace[j + 1])
             /\ r.time_lags[k] = TimeLag(ObsTime[i + 1], ObsTime[j + 1])
             /\ r.sq_val_deltas[k]
                  = RMul(RSub(Val(residuals)[i + 1], Val(residuals)[j + 1]),
                         RSub(Val(residuals)[i + 1], Val(residuals)[j + 1]))

SweepWithinBudget(a, r, elig) ==
    /\ Len(r.pairs) <= a.el_max
    /\ IF Len(elig) >= a.el_max
       THEN /\ RecordedFirst(a, r, elig, a.el_max)
            /\ r.examined = elig[a.el_max]
            /\ r.notice
       ELSE /\ RecordedFirst(a, r, elig, Len(elig))
            /\ r.examined = Len(SweepOrder(NObs))
            /\ ~ r.notice

\* C15: get_distances with a budget el_max >= 1 returns normally, never
\* records more than el_max pairs, and stops at the el_max-th eligible pair
\* of the sweep: it returns the first el_max eligible pairs and examines no
\* position after that one.
BudgetNeverExceeded ==
    Swept =>
        /\ last.outcome = "ok"
        /\ SweepWithinBudget(last.args, last.result,
                             EligiblePositions(last.args))

\* A sweep cut short with eligible pairs and positions left over.
SweepCutShort ==
    /\ Swept
    /\ last.result.notice
    /\ Len(EligiblePositions(last.args)) > last.args.el_max
    /\ last.result.examined < Len(SweepOrder(NObs))

\* C21: get_distances emits its truncation notice only when at least one
\* eligible pair of the sweep was left unrecorded; when every eligible pair
\* was recorded, the case of exactly el_max eligible pairs included, no
\* notice is emitted.
NoticeOnlyWhenPairsLeft ==
    Swept =>
        (last.result.notice =>
            Len(EligiblePositions(last.args)) > Len(last.result.pairs))

====
